---- MODULE Spec2Model ----
(***************************************************************************)
(* Model of streamlit_app.py: the data-access and caching layer of the     *)
(* financial submission portal.                                            *)
(*                                                                         *)
(* Every browser session runs main() in its own script thread.  A run      *)
(* handles the Refresh button, then the data entry form (which calls       *)
(* submit_financial_data), then calls fetch_all_data and                    *)
(* get_summary_stats.  The three decorated functions are modelled with     *)
(* the behaviour of their decorators:                                      *)
(*   - @st.cache_resource / @st.cache_data look the call up in the         *)
(*     function's cache object; on a miss they take the cache object's     *)
(*     compute lock, look again, run the body and store WHATEVER the body  *)
(*     returns (None and empty frames included);                           *)
(*   - st.cache_data.clear() drops every data-cache object; the next call  *)
(*     creates a new one, while a call already running keeps and writes    *)
(*     to the object it looked up when it started.                         *)
(* Numbers stand for the floats of the program; the inputs are chosen so   *)
(* that every quotient the model computes is exact.                        *)
(***************************************************************************)
EXTENDS Integers, Sequences, FiniteSets, TLC

(* ------------------------------ bounds -------------------------------- *)

\* Rows the table may hold and steps the clock may take; the runs with two
\* sessions take the full number of one and the small number of the other.
MaxStore == 2
MaxTicks == 2
FewRows == 1
FewTicks == 1

\* Cursors left open on the connection are counted up to this number.
MaxCursors == 1

\* Rows the table holds before the sessions start, in the runs that take
\* the table across the LIMIT of fetch_all_data, and rows added in them.
Preloaded == 99
NewRows == 2

(* ------------------------- program constants -------------------------- *)

TTL == 30
RecentLimit == 100

BusinessUnits == {"Sales", "Marketing", "Operations", "Engineering", "Finance", "HR"}

Columns ==
    << "submission_id", "business_unit", "submission_date", "revenue",
       "expenses", "profit_margin", "submitted_by", "created_at" >>

SummaryColumns ==
    << "business_unit", "submission_count", "total_revenue",
       "total_expenses", "avg_profit_margin" >>

(* ------------------------- model parameters --------------------------- *)

\* The browser sessions, each with its own script thread.
Sessions == {1, 2}
NoThread == 0

\* The clock moves in steps of half a TTL.
TickStep == TTL \div 2

\* Names for the data-cache objects alive at one time: the current one and
\* at most one dropped object per running call.
Gens == 0..Cardinality(Sessions)
Keys == {"recent", "summary"}

\* uuid.uuid4().hex[:8]: a random suffix of 8 lowercase hex characters; two
\* draws may coincide.
HexSuffixes == {"0000000a", "0000000b"}

\* Arguments of submit_financial_data (business_unit, revenue, expenses,
\* submitted_by) that the form can send ...
FormInputs ==
    { << "Sales", 100, 50, "Alice" >>,
      << "Marketing", 0, 50, "Alice" >> }

\* ... and arguments the function accepts all the same: it does not look at
\* them, the limits of the form's widgets are not part of it.
SubmitInputs ==
    FormInputs \cup
    { << "Sales", -10, 50, "Alice" >>,
      << "Finance", 100, -50, "Alice" >>,
      << "Legal", 100, 50, "Alice" >> }

\* Where a try block may raise: at connection.cursor(), at cursor.execute()
\* (or, in a fetch, at whatever follows it up to the frame), at
\* cursor.close().
Faults == {"cursor", "execute", "close"}

\* What the resource cache holds: nothing yet, the None the body returned,
\* or the n-th connection sql.connect established.
Absent == [kind |-> "absent", id |-> 0]
CachedNone == [kind |-> "None", id |-> 0]
Handle(n) == [kind |-> "handle", id |-> n]

NoEntry == [val |-> "none"]
NoArgs == << >>
NoResult == << >>
NoData == "nodata"
NoRet == [how |-> "none"]
NoLast == [val |-> "none"]

(* --------------------------- pure functions --------------------------- *)

Min(a, b) == IF a < b THEN a ELSE b

\* pd.DataFrame(data, columns=columns)
DataFrame(cols, rows) == [columns |-> cols, rows |-> rows]

\* pd.DataFrame(): no columns, no rows.
EmptyDataFrame == DataFrame(<< >>, << >>)

\* DataFrame.empty: true when any axis has length 0.
DfEmpty(df) == Len(df.columns) = 0 \/ Len(df.rows) = 0

\* Mutant of ProfitMargin: the markup on the expenses.
MarkupOnCost(revenue, expenses) ==
    IF expenses > 0 THEN ((revenue - expenses) * 100) \div expenses ELSE 0

\* profit_margin = ((revenue - expenses) / revenue * 100) if revenue > 0 else 0
ProfitMargin(revenue, expenses) ==
    IF revenue > 0 THEN ((revenue - expenses) * 100) \div revenue ELSE 0

\* The row bound to the INSERT statement's eight parameters.
NewRow(id, a, t) ==
    [ submission_id   |-> id,
      business_unit   |-> a[1],
      submission_date |-> t,
      revenue         |-> a[2],
      expenses        |-> a[3],
      profit_margin   |-> ProfitMargin(a[2], a[3]),
      submitted_by    |-> a[4],
      created_at      |-> t ]

\* Mutant of InsertRow: a row with the same submission_id is overwritten.
UpsertRow(s, r) ==
    IF \E i \in 1..Len(s) : s[i].submission_id = r.submission_id
    THEN [i \in 1..Len(s) |-> IF s[i].submission_id = r.submission_id THEN r ELSE s[i]]
    ELSE Append(s, r)

\* INSERT INTO financial_submissions: one row is added to the table.
InsertRow(s, r) == Append(s, r)

Injective(f) == \A i, j \in DOMAIN f : f[i] = f[j] => i = j

\* ORDER BY submission_date DESC
Newer(r, q) == r.submission_date > q.submission_date

\* ORDER BY submission_date DESC over all rows of s: every order the backend
\* may give.  One such order comes from sorting; the others differ from it
\* by the places that rows of equal date (which stand next to each other
\* in it) take among themselves.
OrderByDateDesc(s) ==
    LET sorted == SortSeq(s, Newer)
        N == Len(s)
        Run(p) == { q \in 1..N : sorted[q].submission_date = sorted[p].submission_date }
        tied == { p \in 1..N :
                    \/ p > 1 /\ sorted[p - 1].submission_date = sorted[p].submission_date
                    \/ p < N /\ sorted[p + 1].submission_date = sorted[p].submission_date }
        First(p) == CHOOSE q \in Run(p) : \A r \in Run(p) : q <= r
        places == { f \in [tied -> 1..Cardinality(tied)] :
                      \A p \in tied :
                         /\ f[p] <= Cardinality(Run(p))
                         /\ \A q \in Run(p) : q # p => f[q] # f[p] }
        Placed(f, p) ==
            IF p \in tied
            THEN sorted[CHOOSE q \in tied : First(q) + f[q] - 1 = p]
            ELSE sorted[p]
    IN  { [p \in 1..N |-> Placed(f, p)] : f \in places }

\* Mutant of RecentResults: the statement without its LIMIT.
Unlimited(s) == OrderByDateDesc(s)

\* SELECT * FROM financial_submissions ORDER BY submission_date DESC LIMIT 100
RecentResults(s) ==
    { SubSeq(q, 1, Min(RecentLimit, Len(q))) : q \in OrderByDateDesc(s) }

RECURSIVE SumField(_, _, _, _)
\* SUM(field) over the rows of business unit u among the first n rows.
SumField(s, u, field, n) ==
    IF n = 0 THEN 0
    ELSE SumField(s, u, field, n - 1)
         + (IF s[n].business_unit = u THEN s[n][field] ELSE 0)

UnitsOf(s) == { s[i].business_unit : i \in 1..Len(s) }

CountOf(s, u) == Cardinality({ i \in 1..Len(s) : s[i].business_unit = u })

\* Mutant of GroupRow: the groups are formed from the rows that
\* fetch_all_data shows, the RecentLimit latest ones.
GroupRowOfRecent(s, u) ==
    LET q == SubSeq(s, Len(s) - Min(RecentLimit, Len(s)) + 1, Len(s))
    IN  [ business_unit     |-> u,
          submission_count  |-> CountOf(q, u),
          total_revenue     |-> SumField(q, u, "revenue", Len(q)),
          total_expenses    |-> SumField(q, u, "expenses", Len(q)),
          avg_profit_margin |-> [ num |-> SumField(q, u, "profit_margin", Len(q)),
                                  den |-> CountOf(q, u) ] ]

\* One row of the GROUP BY business_unit query.  AVG(profit_margin) is kept
\* as the exact quotient num/den.
GroupRow(s, u) ==
    [ business_unit     |-> u,
      submission_count  |-> CountOf(s, u),
      total_revenue     |-> SumField(s, u, "revenue", Len(s)),
      total_expenses    |-> SumField(s, u, "expenses", Len(s)),
      avg_profit_margin |-> [ num |-> SumField(s, u, "profit_margin", Len(s)),
                              den |-> CountOf(s, u) ] ]

\* GROUP BY business_unit ORDER BY total_revenue DESC: every answer the
\* backend may give (groups of equal total_revenue come in any order).
SummaryResults(s) ==
    LET m == Cardinality(UnitsOf(s))
        orders == { f \in [1..m -> UnitsOf(s)] :
                      /\ Injective(f)
                      /\ \A i, j \in 1..m :
                           i < j => GroupRow(s, f[i]).total_revenue
                                      >= GroupRow(s, f[j]).total_revenue }
    IN  { [i \in 1..m |-> GroupRow(s, f[i])] : f \in orders }

\* The frame the body of a fetch builds from a successful query.
QueryFrames(k, s) ==
    IF k = "recent"
    THEN { DataFrame(Columns, q) : q \in RecentResults(s) }
    ELSE { DataFrame(SummaryColumns, q) : q \in SummaryResults(s) }

\* Mutant of SubmitResult: the generated id goes out with a failure too.
LeakId(ok, id, msg) == << ok, id >>

\* return True, submission_id  /  return False, str(e)
SubmitResult(ok, id, msg) == IF ok THEN << TRUE, id >> ELSE << FALSE, msg >>

\* The cursors open on the connection after a try block that found n open:
\* cursor.close() is the last statement of the try block, so a block that
\* raises after connection.cursor() returned leaves its cursor open.
CursorsAfter(n, fault) ==
    IF fault \in {"execute", "close"} THEN Min(n + 1, MaxCursors) ELSE n

(* ------------------------------- state -------------------------------- *)

VARIABLES
    scope,      \* what the run exercises: fixed by the initial state
    now,        \* the clock, in seconds (time.monotonic / datetime.now)
    store,      \* the rows of table financial_submissions, in insertion order
    connCache,  \* st.cache_resource entry of get_databricks_connection
    connLock,   \* holder of that cache's compute lock
    connects,   \* connections sql.connect has established (none is ever closed)
    cursors,    \* cursors open on the connection, counted up to MaxCursors
    entry,      \* entry[k][g]: the entry of data-cache object g of function k
    lock,       \* lock[k][g]: holder of that object's compute lock
    cur,        \* the current data-cache object
    pc,         \* where each session's script thread is
    op,         \* the function the thread is in
    args,       \* arguments of the running submit_financial_data call
    conn,       \* local variable `connection`
    obj,        \* the cache object the running cached call looked up
    data,       \* the frame the body of a fetch is about to return
    result,     \* (success, result) returned by submit_financial_data
    ret,        \* the frame a fetch returned, with where it came from
    wrote,      \* history: index of the row the running submit inserted
    done,       \* history: rows whose submit has run st.cache_data.clear()
    need,       \* history: `done` when the running fetch was called
    quiet,      \* history: no submit wrote or cleared since the fetch was called
    pending,    \* history: no fetch of the key was called since the last clear
    wasNext,    \* history: the running fetch is the first since a clear
    last        \* history: the latest fetch_all_data call that returned

vars ==
    << scope, now, store, connCache, connLock, connects, cursors, entry, lock, cur,
       pc, op, args, conn, obj, data, result, ret, wrote, done, need,
       quiet, pending, wasNext, last >>

connVars == << connCache, connLock, connects, cursors >>
cacheVars == << entry, lock, cur, pending >>
callVars == << obj, need, wasNext, ret >>
submitVars == << args, result, wrote, done >>

\* The process has just started, over a table that holds the rows s.
InitStateWith(s) ==
    /\ now = 0
    /\ store = s
    /\ connCache = Absent
    /\ connLock = NoThread
    /\ connects = 0
    /\ cursors = 0
    /\ entry = [k \in Keys |-> [g \in Gens |-> NoEntry]]
    /\ lock = [k \in Keys |-> [g \in Gens |-> NoThread]]
    /\ cur = 0
    /\ pc = [t \in Sessions |-> "idle"]
    /\ op = [t \in Sessions |-> "none"]
    /\ args = [t \in Sessions |-> NoArgs]
    /\ conn = [t \in Sessions |-> Absent]
    /\ obj = [t \in Sessions |-> 0]
    /\ data = [t \in Sessions |-> NoData]
    /\ result = [t \in Sessions |-> NoResult]
    /\ ret = [t \in Sessions |-> NoRet]
    /\ wrote = [t \in Sessions |-> 0]
    /\ done = {}
    /\ need = [t \in Sessions |-> {}]
    /\ quiet = [t \in Sessions |-> TRUE]
    /\ pending = [k \in Keys |-> FALSE]
    /\ wasNext = [t \in Sessions |-> FALSE]
    /\ last = NoLast

InitState == InitStateWith(<< >>)

\* Two sessions using the form: concurrent submits, refreshes and fetches.
Init ==
    /\ scope = [sessions |-> Sessions, inputs |-> {<< "Sales", 100, 50, "Alice" >>},
                ids |-> {"0000000a"}, rows |-> MaxStore, ticks |-> FewTicks,
                faults |-> {"execute"}]
    /\ InitState

\* Two sessions and a clock that runs past the TTL.
InitTTL ==
    /\ scope = [sessions |-> Sessions, inputs |-> {<< "Sales", 100, 50, "Alice" >>},
                ids |-> {"0000000a"}, rows |-> FewRows, ticks |-> MaxTicks,
                faults |-> {"execute"}]
    /\ InitState

\* One session calling submit_financial_data with every kind of argument
\* and with submission ids that may or may not coincide.
InitSubmit ==
    /\ scope = [sessions |-> {1}, inputs |-> SubmitInputs,
                ids |-> HexSuffixes, rows |-> MaxStore, ticks |-> MaxTicks,
                faults |-> Faults]
    /\ InitState

\* The rows of a table that earlier runs of the form filled: row i of n was
\* submitted n + 1 - i seconds before the process started, the first two in
\* the same instant, by the form's inputs in turn.
HexOf(i) ==
    IF i < 10 THEN "0000000" \o ToString(i)
    ELSE IF i < 100 THEN "000000" \o ToString(i)
    ELSE "00000" \o ToString(i)

PreloadInput(i) ==
    IF i % 2 = 1 THEN << "Sales", 100, 50, "Alice" >> ELSE << "Marketing", 100, 50, "Bob" >>

PreloadedStore(n) ==
    [i \in 1..n |->
       NewRow("sub_" \o HexOf(i), PreloadInput(i), (IF i = 1 THEN 2 ELSE i) - n - 1)]

\* One session over a table that is about to grow past the LIMIT of
\* fetch_all_data.
InitRecent ==
    /\ scope = [sessions |-> {1}, inputs |-> {<< "Marketing", 100, 50, "Bob" >>},
                ids |-> {"0000000a"}, rows |-> Preloaded + NewRows, ticks |-> FewTicks,
                faults |-> {"execute"}]
    /\ InitStateWith(PreloadedStore(Preloaded))

(* ------------------------ decorator behaviour ------------------------- *)

\* Mutants of IsFresh: a TTL of half the length, and no TTL at all.
HalfTTL(e, t) == e # NoEntry /\ t - e.at < TTL \div 2
NeverExpires(e, t) == e # NoEntry

\* ttl=30: an entry is served while less than TTL seconds old.
IsFresh(e, t) == e # NoEntry /\ t - e.at < TTL

\* A cached call holds the cache object it looked up until it returns.
InCall(t, pcs, ops) ==
    ops[t] \in Keys /\ pcs[t] \in {"lock", "getconn", "connlock", "connect", "exec", "write"}

Held(g) == \E t \in Sessions : InCall(t, pc, op) /\ obj[t] = g

\* st.cache_data.clear(): every cache object is dropped; calls from now on
\* use a new, empty one (named by a name no running call still uses).
CacheDataClear(c) == CHOOSE g \in Gens : g # c /\ ~Held(g)

\* Mutants of AfterSubmit: the form forgets to clear the data caches, and
\* it clears them whatever the submit returned.
KeepCaches(success, c) == c
ClearAlways(success, c) == CacheDataClear(c)

\* The form clears the data caches only when the submit succeeded.
AfterSubmit(success, c) == IF success THEN CacheDataClear(c) ELSE c

\* Mutant of WriterObject: one cache per function that clear() empties in
\* place, so that a call running across the clear writes into it.
CurrentObject(o, c) == c

\* A cached call stores its value in the cache object it looked up when it
\* was called (o), whatever the current one (c) is by then.
WriterObject(o, c) == o

\* Mutant of LookupUnderLock: the body runs without a second look.
SkipLookupUnderLock(e, t) == FALSE

\* The second look at a data cache, made under the compute lock.
LookupUnderLock(e, t) == IsFresh(e, t)

\* Mutant of FunctionCache: one cache that both functions share.
SharedCache(k) == "recent"

\* Every decorated function has a cache of its own.
FunctionCache(k) == k

\* Mutant of ResourceLookup: the body runs without a second look.
NoSecondLook(c) == Absent

\* The second look at the resource cache, made under its compute lock.
ResourceLookup(c) == c

\* A dropped cache object lives as long as a running call holds it; after
\* that it is freed and its entry is gone for good.
Collect(ent, c, pcs, ops, objs) ==
    [k \in Keys |->
       [g \in Gens |->
          IF g = c \/ \E t \in Sessions : InCall(t, pcs, ops) /\ ops[t] = k /\ objs[t] = g
          THEN ent[k][g]
          ELSE NoEntry]]

(* ------------------------------ actions ------------------------------- *)

\* What a fetch hands back to main(): the value of the cached or computed
\* entry e, with how the call got it ("hit": first lookup, "shared": second
\* lookup under the compute lock, "ran": it ran the body itself), how old
\* the entry is and whether it was computed by a call that looked up the
\* same cache object g.  `last` keeps the latest fetch_all_data result with
\* two notes: no clear, and no submit, has happened since that call began.
Returned(t, e, how, g, q) ==
    /\ ret' = [ret EXCEPT ![t] =
                 [ val |-> e.val, how |-> how, age |-> now - e.at,
                   own |-> (e.gen = g) ]]
    /\ last' = IF op[t] = "recent"
               THEN [ val |-> e.val, at |-> e.at,
                      noclear |-> (g = cur), nosubmit |-> q ]
               ELSE last
    /\ pc' = [pc EXCEPT ![t] = "ret"]

\* A clear or a submit happened: the latest result is no longer followed
\* by silence.
Noted(cleared, submitted) ==
    IF last = NoLast THEN last
    ELSE [last EXCEPT !.noclear = @ /\ ~cleared, !.nosubmit = @ /\ ~submitted]

\* The clock advances.  An entry that reaches its TTL is gone: the cache
\* never serves it again.
Tick ==
    /\ now + TickStep <= scope.ticks * TickStep
    /\ now' = now + TickStep
    /\ entry' = [k \in Keys |-> [g \in Gens |->
                   IF IsFresh(entry[k][g], now') THEN entry[k][g] ELSE NoEntry]]
    /\ last' = IF last # NoLast /\ now' - last.at >= TTL THEN NoLast ELSE last
    /\ UNCHANGED << scope, store, connVars, lock, cur, pending, pc, op, conn,
                    data, callVars, quiet, submitVars >>

\* A script run without a button pressed reaches line 412.
Rerun(t) ==
    /\ pc[t] = "idle"
    /\ pc' = [pc EXCEPT ![t] = "lookup"]
    /\ op' = [op EXCEPT ![t] = "recent"]
    /\ UNCHANGED << scope, now, store, connVars, cacheVars, conn, data,
                    callVars, quiet, submitVars, last >>

\* Refresh Data: st.cache_data.clear(), st.rerun().
Refresh(t) ==
    /\ pc[t] = "idle"
    /\ cur' = CacheDataClear(cur)
    /\ pending' = [k \in Keys |-> TRUE]
    /\ pc' = [pc EXCEPT ![t] = "lookup"]
    /\ op' = [op EXCEPT ![t] = "recent"]
    /\ entry' = Collect(entry, cur', pc', op', obj)
    /\ last' = Noted(TRUE, FALSE)
    /\ UNCHANGED << scope, now, store, connVars, lock, conn, data, callVars,
                    quiet, submitVars >>

\* The form is submitted: submit_financial_data is called.
FormSubmit(t) ==
    /\ pc[t] = "idle"
    /\ Len(store) + Cardinality({ u \in Sessions : op[u] = "submit" }) < scope.rows
    /\ \E a \in scope.inputs : args' = [args EXCEPT ![t] = a]
    /\ pc' = [pc EXCEPT ![t] = "getconn"]
    /\ op' = [op EXCEPT ![t] = "submit"]
    /\ UNCHANGED << scope, now, store, connVars, cacheVars, conn, data,
                    callVars, quiet, result, wrote, done, last >>

\* fetch_all_data() / get_summary_stats() is called: the wrapper takes the
\* function's current cache object and looks the call up in it.
Lookup(t) ==
    /\ pc[t] = "lookup"
    /\ LET k == op[t]
           e == entry[k][cur]
       IN  /\ obj' = [obj EXCEPT ![t] = cur]
           /\ need' = [need EXCEPT ![t] = done]
           /\ wasNext' = [wasNext EXCEPT ![t] = pending[k]]
           /\ pending' = [pending EXCEPT ![k] = FALSE]
           /\ IF IsFresh(e, now)
              THEN Returned(t, e, "hit", cur, TRUE)
              ELSE /\ pc' = [pc EXCEPT ![t] = "lock"]
                   /\ UNCHANGED << ret, last >>
    /\ quiet' = [quiet EXCEPT ![t] = TRUE]
    /\ UNCHANGED << scope, now, store, connVars, entry, lock, cur, op, conn,
                    data, submitVars >>

\* On a miss the wrapper takes the cache object's compute lock and looks
\* again; only when the entry is still missing does it run the body, whose
\* first statement calls get_databricks_connection().
Lock(t) ==
    /\ pc[t] = "lock"
    /\ lock[op[t]][obj[t]] = NoThread
    /\ LET e == entry[op[t]][obj[t]]
       IN  IF LookupUnderLock(e, now)
           THEN /\ Returned(t, e, "shared", obj[t], quiet[t])
                /\ entry' = Collect(entry, cur, pc', op, obj)
                /\ UNCHANGED lock
           ELSE /\ lock' = [lock EXCEPT ![op[t]][obj[t]] = t]
                /\ pc' = [pc EXCEPT ![t] = "getconn"]
                /\ UNCHANGED << entry, ret, last >>
    /\ UNCHANGED << scope, now, store, connVars, cur, pending, op, conn, data,
                    obj, need, wasNext, quiet, submitVars >>

\* The caller has its connection c:
\*   if not connection: return False, "Connection failed"   (submit)
\*   if not connection: return pd.DataFrame()               (fetches)
\* and otherwise enters the try block.
GotConnection(t, c) ==
    /\ conn' = [conn EXCEPT ![t] = c]
    /\ IF c = CachedNone
       THEN IF op[t] = "submit"
            THEN /\ result' = [result EXCEPT ![t] = << FALSE, "Connection failed" >>]
                 /\ pc' = [pc EXCEPT ![t] = "ret"]
                 /\ UNCHANGED data
            ELSE /\ data' = [data EXCEPT ![t] = EmptyDataFrame]
                 /\ pc' = [pc EXCEPT ![t] = "write"]
                 /\ UNCHANGED result
       ELSE /\ pc' = [pc EXCEPT ![t] = "exec"]
            /\ UNCHANGED << data, result >>

\* connection = get_databricks_connection(): looked up in the resource cache.
GetConn(t) ==
    /\ pc[t] = "getconn"
    /\ IF connCache # Absent
       THEN GotConnection(t, connCache)
       ELSE /\ pc' = [pc EXCEPT ![t] = "connlock"]
            /\ UNCHANGED << conn, data, result >>
    /\ UNCHANGED << scope, now, store, connVars, cacheVars, op, callVars,
                    quiet, args, wrote, done, last >>

\* On a miss the resource cache's compute lock is taken and the cache is
\* looked up again.
ConnLock(t) ==
    /\ pc[t] = "connlock"
    /\ connLock = NoThread
    /\ LET c == ResourceLookup(connCache)
       IN  IF c # Absent
           THEN /\ GotConnection(t, c)
                /\ UNCHANGED connLock
           ELSE /\ connLock' = t
                /\ pc' = [pc EXCEPT ![t] = "connect"]
                /\ UNCHANGED << conn, data, result >>
    /\ UNCHANGED << scope, now, store, connCache, connects, cursors, cacheVars,
                    op, callVars, quiet, args, wrote, done, last >>

\* The body of get_databricks_connection: sql.connect succeeds and the
\* handle is returned, or it raises and None is returned.  Either return
\* value is stored in the resource cache.
Connect(t) ==
    /\ pc[t] = "connect"
    /\ \E ok \in BOOLEAN :
         LET h == IF ok THEN Handle(connects + 1) ELSE CachedNone
         IN  /\ connects' = IF ok THEN connects + 1 ELSE connects
             /\ connCache' = h
             /\ GotConnection(t, h)
    /\ connLock' = NoThread
    /\ UNCHANGED << scope, now, store, cursors, cacheVars, op, callVars, quiet,
                    args, wrote, done, last >>

\* The try block of submit_financial_data.  It runs to its end and returns
\* (True, submission_id), or one of its calls raises and (False, str(e)) is
\* returned: connection.cursor() before anything happened, cursor.execute()
\* with no row written, cursor.close() with the row written.
SubmitExec(t) ==
    /\ pc[t] = "exec"
    /\ op[t] = "submit"
    /\ \E fault \in scope.faults \cup {"none"}, h \in scope.ids :
         LET id == "sub_" \o h
             inserted == fault \in {"none", "close"}
         IN  /\ store' = IF inserted
                         THEN InsertRow(store, NewRow(id, args[t], now))
                         ELSE store
             /\ result' = [result EXCEPT ![t] =
                             SubmitResult(fault = "none", id, fault \o " failed")]
             /\ wrote' = IF fault = "none"
                         THEN [wrote EXCEPT ![t] = Len(store')]
                         ELSE wrote
             /\ quiet' = IF inserted THEN [u \in Sessions |-> FALSE] ELSE quiet
             /\ last' = IF inserted THEN Noted(FALSE, TRUE) ELSE last
             /\ cursors' = CursorsAfter(cursors, fault)
    /\ pc' = [pc EXCEPT ![t] = "ret"]
    /\ UNCHANGED << scope, now, connCache, connLock, connects, cacheVars, op,
                    conn, data, callVars, args, done >>

\* The try block of fetch_all_data / get_summary_stats: the query answers
\* and the frame is built, or a call raises and pd.DataFrame() is returned.
QueryExec(t) ==
    /\ pc[t] = "exec"
    /\ op[t] \in Keys
    /\ \E fault \in scope.faults \cup {"none"} :
         /\ IF fault = "none"
            THEN \E f \in QueryFrames(op[t], store) : data' = [data EXCEPT ![t] = f]
            ELSE data' = [data EXCEPT ![t] = EmptyDataFrame]
         /\ cursors' = CursorsAfter(cursors, fault)
    /\ pc' = [pc EXCEPT ![t] = "write"]
    /\ UNCHANGED << scope, now, store, connCache, connLock, connects, cacheVars,
                    op, conn, callVars, quiet, submitVars, last >>

\* The body returned: the wrapper stores the value with the current time,
\* releases the compute lock and returns the value.
Write(t) ==
    /\ pc[t] = "write"
    /\ LET e == [val |-> data[t], at |-> now, gen |-> obj[t]]
       IN  /\ Returned(t, e, "ran", obj[t], quiet[t])
           /\ entry' = Collect([entry EXCEPT ![FunctionCache(op[t])][WriterObject(obj[t], cur)] = e],
                               cur, pc', op, obj)
    /\ lock' = [lock EXCEPT ![op[t]][obj[t]] = NoThread]
    /\ data' = [data EXCEPT ![t] = NoData]
    /\ conn' = [conn EXCEPT ![t] = Absent]
    /\ UNCHANGED << scope, now, store, connVars, cur, pending, op, obj, need,
                    wasNext, quiet, submitVars >>

\* main() goes on after a fetch: fetch_all_data is followed by
\* get_summary_stats, and that by the end of the run.
FetchRet(t) ==
    /\ pc[t] = "ret"
    /\ op[t] \in Keys
    /\ pc' = [pc EXCEPT ![t] = IF op[t] = "recent" THEN "lookup" ELSE "idle"]
    /\ op' = [op EXCEPT ![t] = IF op[t] = "recent" THEN "summary" ELSE "none"]
    /\ ret' = [ret EXCEPT ![t] = NoRet]
    /\ obj' = [obj EXCEPT ![t] = 0]
    /\ need' = [need EXCEPT ![t] = {}]
    /\ wasNext' = [wasNext EXCEPT ![t] = FALSE]
    /\ quiet' = [quiet EXCEPT ![t] = TRUE]
    /\ UNCHANGED << scope, now, store, connVars, cacheVars, conn, data,
                    submitVars, last >>

\* The form after submit_financial_data returned: on success the data
\* caches are cleared and the script reruns; on failure the error is shown
\* and the run goes on.  Either way fetch_all_data is called next.
SubmitRet(t) ==
    /\ pc[t] = "ret"
    /\ op[t] = "submit"
    /\ LET success == result[t][1]
       IN  /\ cur' = AfterSubmit(success, cur)
           /\ pending' = IF success THEN [k \in Keys |-> TRUE] ELSE pending
           /\ done' = IF success THEN done \cup {wrote[t]} ELSE done
           /\ quiet' = IF success THEN [u \in Sessions |-> FALSE] ELSE quiet
           /\ last' = IF success THEN Noted(TRUE, TRUE) ELSE last
    /\ args' = [args EXCEPT ![t] = NoArgs]
    /\ result' = [result EXCEPT ![t] = NoResult]
    /\ wrote' = [wrote EXCEPT ![t] = 0]
    /\ conn' = [conn EXCEPT ![t] = Absent]
    /\ pc' = [pc EXCEPT ![t] = "lookup"]
    /\ op' = [op EXCEPT ![t] = "recent"]
    /\ entry' = Collect(entry, cur', pc', op', obj)
    /\ UNCHANGED << scope, now, store, connVars, lock, data, callVars >>

Next ==
    \/ Tick
    \/ \E t \in scope.sessions : Rerun(t)
    \/ \E t \in scope.sessions : Refresh(t)
    \/ \E t \in scope.sessions : FormSubmit(t)
    \/ \E t \in scope.sessions : Lookup(t)
    \/ \E t \in scope.sessions : Lock(t)
    \/ \E t \in scope.sessions : GetConn(t)
    \/ \E t \in scope.sessions : ConnLock(t)
    \/ \E t \in scope.sessions : Connect(t)
    \/ \E t \in scope.sessions : SubmitExec(t)
    \/ \E t \in scope.sessions : QueryExec(t)
    \/ \E t \in scope.sessions : Write(t)
    \/ \E t \in scope.sessions : FetchRet(t)
    \/ \E t \in scope.sessions : SubmitRet(t)

Spec == Init /\ [][Next]_vars

SpecTTL == InitTTL /\ [][Next]_vars

SpecSubmit == InitSubmit /\ [][Next]_vars

SpecRecent == InitRecent /\ [][Next]_vars

(* ------------------------------- claims ------------------------------- *)

Fetching(t) == pc[t] = "ret" /\ op[t] \in Keys
MaxOf(S) == IF S = {} THEN 0 ELSE CHOOSE n \in S : \A m \in S : m <= n

\* The frame is an answer of the fetch's query over the first n rows.
AnswerOver(k, df, n) == df \in QueryFrames(k, SubSeq(store, 1, n))

\* C1: a fetch called after a successful submit has cleared the caches, and
\* that returns a query's answer, returns one that holds every row submitted
\* before the call: fetch_all_data has the rows themselves, get_summary_stats
\* counts them in their unit's summary row.
C1_FetchAfterSubmitSeesRow ==
    \A t \in Sessions :
       (Fetching(t) /\ ret[t].val # EmptyDataFrame) =>
          /\ \E n \in MaxOf(need[t])..Len(store) : AnswerOver(op[t], ret[t].val, n)
          /\ op[t] = "recent" =>
                \A i \in need[t] :
                   \E j \in 1..Len(ret[t].val.rows) : ret[t].val.rows[j] = store[i]
          /\ op[t] = "summary" =>
                \A i \in need[t] :
                   \E j \in 1..Len(ret[t].val.rows) :
                      /\ ret[t].val.rows[j].business_unit = store[i].business_unit
                      /\ ret[t].val.rows[j].submission_count
                            >= Cardinality({ m \in need[t] :
                                  store[m].business_unit = store[i].business_unit })

\* The first fetch_all_data after a submit's clear ran the query and
\* returned the submitted row.
C1_Witness ==
    \E t \in Sessions :
       /\ Fetching(t) /\ op[t] = "recent" /\ wasNext[t]
       /\ need[t] # {} /\ ret[t].how = "ran" /\ ret[t].val # EmptyDataFrame

\* C2: a fetch that is served from the cache never gets a stored failure.
C2_FailureNotCached ==
    \A t \in Sessions :
       (Fetching(t) /\ ret[t].how \in {"hit", "shared"}) => ret[t].val # EmptyDataFrame

\* C3: a failed connection attempt leaves nothing in the resource cache, so
\* that the next call attempts the connection again.
C3_FailedConnectNotCached == connCache # CachedNone

\* C4: at most one connection is ever established, and every caller that
\* gets a handle gets that one.
C4_ConnectOnce ==
    /\ connects <= 1
    /\ \A t \in Sessions :
          conn[t].kind = "handle" => conn[t] = Handle(1) /\ conn[t] = connCache

\* Two callers hold the handle at once, after one connection.
C4_Witness ==
    /\ connects = 1
    /\ \A t \in Sessions : conn[t] = Handle(1)

\* The step in which session t calls fetch_all_data while the latest result
\* before it is less than TTL old.
SecondCall(t) ==
    /\ pc[t] = "lookup" /\ op[t] = "recent" /\ pc'[t] # "lookup"
    /\ last # NoLast /\ now - last.at < TTL

SameAsLast(t) ==
    pc'[t] = "ret" /\ ret'[t].how = "hit" /\ ret'[t].val = last.val

\* C5 (as stated): two fetch_all_data calls within one TTL window with no
\* submit in between return the same frame, the second without a query.
C5_SameWithoutSubmit ==
    [][\A t \in Sessions : (SecondCall(t) /\ last.nosubmit) => SameAsLast(t)]_vars

\* C5 (amended): two fetch_all_data calls within one TTL window with no
\* st.cache_data.clear() in between, be it a successful submit's or the
\* Refresh button's, return the same frame, the second without a query.
C5_SameWithoutClear ==
    [][\A t \in Sessions : (SecondCall(t) /\ last.noclear) => SameAsLast(t)]_vars

\* A second call was served the entry of an earlier one, half a TTL old.
C5_Witness ==
    \E t \in Sessions :
       /\ Fetching(t) /\ op[t] = "recent" /\ ret[t].how = "hit"
       /\ ret[t].age = TickStep /\ last # NoLast /\ last.val = ret[t].val

\* C6: every frame a fetch returns was computed less than TTL before, and a
\* call that computes starts a new window at its own completion.
C6_BoundedStaleness ==
    /\ \A t \in Sessions :
          Fetching(t) =>
             /\ 0 <= ret[t].age /\ ret[t].age < TTL
             /\ ret[t].how = "ran" => ret[t].age = 0
    /\ \A k \in Keys, g \in Gens :
          entry[k][g] # NoEntry => entry[k][g].at <= now /\ now - entry[k][g].at < TTL

\* After the TTL of the first entry ran out, a call computed a new one.
C6_Witness ==
    \E t \in Sessions :
       /\ Fetching(t) /\ ret[t].how = "ran" /\ now >= TTL
       /\ entry[op[t]][obj[t]].at = now

\* C7: the first fetch of either function after a clear is not served the
\* entry of an earlier call: it misses, and what it returns was computed by a
\* call that began after the clear.
C7_NextFetchBypasses ==
    \A t \in Sessions :
       (Fetching(t) /\ wasNext[t]) => ret[t].how # "hit" /\ ret[t].own

\* A fetch begun before a clear completed after it, and the first fetch
\* after the clear ran the query itself.
C7_Witness ==
    \E t, u \in Sessions :
       /\ Fetching(t) /\ wasNext[t] /\ obj[t] = cur /\ ret[t].how = "ran"
       /\ Fetching(u) /\ op[u] = op[t] /\ obj[u] # cur /\ ret[u].how = "ran"

ValidInput(a) == a[1] \in BusinessUnits /\ a[2] >= 0 /\ a[3] >= 0

\* C8: a submit with a negative revenue, negative expenses or an unknown
\* business unit fails and writes no row.
C8_InvalidRejected ==
    /\ \A i \in 1..Len(store) :
          ValidInput(<< store[i].business_unit, store[i].revenue, store[i].expenses >>)
    /\ \A t \in Sessions :
          (pc[t] = "ret" /\ op[t] = "submit" /\ ~ValidInput(args[t])) => ~result[t][1]

\* C9: a fetch whose own body failed (the only frame the failure branches
\* return is pd.DataFrame()) hands its caller something that the caller's
\* test, df.empty, tells from a successful fetch of an empty table.
C9_FailureExplicit ==
    \A t \in Sessions :
       (Fetching(t) /\ ret[t].how = "ran" /\ ret[t].val = EmptyDataFrame) =>
          \A f \in QueryFrames(op[t], << >>) : DfEmpty(ret[t].val) # DfEmpty(f)

SubmitStep(t) == pc[t] = "exec" /\ op[t] = "submit" /\ pc'[t] = "ret"

\* C10: every step keeps the rows of the table as they are; only a submit
\* adds a row, never more than one, and a submit that succeeds adds one.
C10_AppendOnly ==
    [][ /\ Len(store') >= Len(store)
        /\ SubSeq(store', 1, Len(store)) = store
        /\ Len(store') <= Len(store) + 1
        /\ store' # store => \E t \in Sessions : SubmitStep(t)
        /\ \A t \in Sessions :
              SubmitStep(t) => (result'[t][1] => Len(store') = Len(store) + 1) ]_vars

\* Two rows with the same submission_id are both in the table.
C10_Witness ==
    /\ Len(store) = 2
    /\ store[1].submission_id = store[2].submission_id
    /\ store[1] # store[2]

(* ----------------------------- C11 .. C20 ----------------------------- *)

SubmitReturned(t) == pc[t] = "ret" /\ op[t] = "submit"

\* C11: no two rows of the table carry the same submission_id, and every
\* id a submit returns is sub_ followed by 8 lowercase hex characters.
C11_UniqueIds ==
    /\ \A i, j \in 1..Len(store) :
          store[i].submission_id = store[j].submission_id => i = j
    /\ \A t \in Sessions :
          (SubmitReturned(t) /\ result[t][1]) =>
             \E h \in HexSuffixes : Len(h) = 8 /\ result[t][2] = "sub_" \o h

\* C12: every row of the table has the profit_margin that line 55 gives for
\* its revenue and expenses, (revenue - expenses) / revenue * 100 for a
\* positive revenue and 0 for revenue 0, and a submit that fails does so at
\* the connection or at a call on the cursor, never at the division.
C12_ProfitMargin ==
    /\ \A i \in 1..Len(store) :
          LET r == store[i]
          IN  /\ r.revenue > 0 =>
                   r.profit_margin * r.revenue = (r.revenue - r.expenses) * 100
              /\ r.revenue = 0 => r.profit_margin = 0
    /\ \A t \in Sessions :
          (SubmitReturned(t) /\ ~result[t][1]) =>
             result[t][2] \in {"Connection failed"} \cup { f \o " failed" : f \in Faults }

\* A submit with revenue 0 succeeded and its row has profit_margin 0, next
\* to a row with revenue 100, expenses 50 and profit_margin 50.
C12_Witness ==
    /\ \E t \in Sessions : SubmitReturned(t) /\ result[t][1] /\ args[t][2] = 0
    /\ \E i \in 1..Len(store) :
          store[i].revenue = 0 /\ store[i].expenses = 50 /\ store[i].profit_margin = 0
    /\ \E i \in 1..Len(store) :
          store[i].revenue = 100 /\ store[i].expenses = 50 /\ store[i].profit_margin = 50

DatesFrom(q, d) == Cardinality({ j \in 1..Len(q) : q[j].submission_date >= d })
RowCopies(q, r) == Cardinality({ j \in 1..Len(q) : q[j] = r })

\* rows is an answer of "the min(100, N) rows of s with the greatest
\* submission_date, newest first": it has that many rows, in descending
\* order of date, each a row of s taken no more often than s holds it, and
\* from every date on it has as many rows as s has, up to its length.
IsRecentAnswer(rows, s) ==
    /\ Len(rows) = Min(RecentLimit, Len(s))
    /\ \A j \in 1..(Len(rows) - 1) :
          rows[j].submission_date >= rows[j + 1].submission_date
    /\ \A j \in 1..Len(rows) : RowCopies(rows, rows[j]) <= RowCopies(s, rows[j])
    /\ \A i \in 1..Len(s) :
          DatesFrom(rows, s[i].submission_date)
             = Min(Len(rows), DatesFrom(s, s[i].submission_date))

\* The step in which the query of fetch k, called by t, answers.
QueryStep(t, k) ==
    pc[t] = "exec" /\ op[t] = k /\ pc'[t] = "write" /\ data'[t] # EmptyDataFrame

\* C13: the frame fetch_all_data builds from its query holds the min(100, N)
\* rows of the table with the greatest submission_date, newest first, and no
\* frame fetch_all_data returns, computed or cached, has more than 100 rows.
C13_RecentRows ==
    [][\A t \in Sessions :
          /\ QueryStep(t, "recent") =>
                /\ data'[t].columns = Columns
                /\ IsRecentAnswer(data'[t].rows, store)
          /\ (pc'[t] = "ret" /\ op'[t] = "recent") =>
                Len(ret'[t].val.rows) <= RecentLimit]_vars

\* The table holds more than 100 rows, and fetch_all_data returned 100 of
\* them: the newest first, the oldest not among them.
C13_Witness ==
    \E t \in Sessions :
       /\ Fetching(t) /\ op[t] = "recent" /\ ret[t].how = "ran"
       /\ Len(store) > RecentLimit
       /\ Len(ret[t].val.rows) = RecentLimit
       /\ ret[t].val.rows[1] = store[Len(store)]
       /\ \A j \in 1..RecentLimit : ret[t].val.rows[j] # store[1]

RECURSIVE SumOver(_, _, _)
\* The sum of a column over the first n rows of q.
SumOver(q, field, n) == IF n = 0 THEN 0 ELSE SumOver(q, field, n - 1) + q[n][field]

RowsOfUnit(s, u) == SelectSeq(s, LAMBDA r : r.business_unit = u)

\* C14: the frame get_summary_stats builds from its query has one row for
\* every business_unit of the table and no other, each with the count and
\* the sums of revenue and expenses over all rows of its unit, so that the
\* totals of the frame add up to the totals of the table.
C14_SummarySums ==
    [][\A t \in Sessions :
          QueryStep(t, "summary") =>
             LET rows == data'[t].rows
             IN  /\ data'[t].columns = SummaryColumns
                 /\ Len(rows) = Cardinality(UnitsOf(store))
                 /\ { rows[j].business_unit : j \in 1..Len(rows) } = UnitsOf(store)
                 /\ \A j \in 1..Len(rows) :
                       LET mine == RowsOfUnit(store, rows[j].business_unit)
                       IN  /\ rows[j].submission_count = Len(mine)
                           /\ rows[j].total_revenue = SumOver(mine, "revenue", Len(mine))
                           /\ rows[j].total_expenses = SumOver(mine, "expenses", Len(mine))
                 /\ SumOver(rows, "total_revenue", Len(rows))
                       = SumOver(store, "revenue", Len(store))
                 /\ SumOver(rows, "total_expenses", Len(rows))
                       = SumOver(store, "expenses", Len(store))
                 /\ SumOver(rows, "submission_count", Len(rows)) = Len(store)]_vars

\* get_summary_stats ran its query over a table of more than 100 rows of
\* two business units and returned two rows that count all of them.
C14_Witness ==
    \E t \in Sessions :
       /\ Fetching(t) /\ op[t] = "summary" /\ ret[t].how = "ran"
       /\ Len(store) > RecentLimit
       /\ Len(ret[t].val.rows) = 2
       /\ ret[t].val.rows[1].submission_count + ret[t].val.rows[2].submission_count
             = Len(store)

\* The names of the form's business units in ascending order.
UnitsByName == << "Engineering", "Finance", "HR", "Marketing", "Operations", "Sales" >>
NameRank(u) == CHOOSE i \in 1..Len(UnitsByName) : UnitsByName[i] = u

\* C15: the rows of the frame get_summary_stats builds from its query are
\* in descending order of total_revenue, and rows of equal total_revenue in
\* ascending order of business_unit.
C15_SummaryOrder ==
    [][\A t \in Sessions :
          QueryStep(t, "summary") =>
             LET rows == data'[t].rows
             IN  \A j \in 1..(Len(rows) - 1) :
                    \/ rows[j].total_revenue > rows[j + 1].total_revenue
                    \/ /\ rows[j].total_revenue = rows[j + 1].total_revenue
                       /\ NameRank(rows[j].business_unit)
                             < NameRank(rows[j + 1].business_unit)]_vars

\* The step in which the form goes on after submit_financial_data returned.
FormGoesOn(t) == SubmitReturned(t) /\ pc'[t] # "ret"

\* The step leaves the table and the data caches as they are.
NothingInvalidated ==
    store' = store /\ cur' = cur /\ entry' = entry /\ pending' = pending

\* The step in which submit_financial_data gets None for its connection.
NoHandleStep(t) ==
    /\ op[t] = "submit" /\ pc[t] \in {"getconn", "connlock", "connect"}
    /\ conn'[t] = CachedNone

\* C16: a submit that gets no connection returns (False, "Connection
\* failed") at once, without a cursor, an id or a row, and the form then
\* leaves the data caches alone.
C16_NoConnectionSubmit ==
    [][\A t \in Sessions :
          /\ NoHandleStep(t) =>
                /\ pc'[t] = "ret"
                /\ result'[t] = << FALSE, "Connection failed" >>
                /\ store' = store /\ cursors' = cursors
          /\ (FormGoesOn(t) /\ conn[t] = CachedNone) => NothingInvalidated]_vars

\* A submit returned the connection failure while the data cache held an
\* entry.
C16_Witness ==
    \E t \in Sessions :
       /\ SubmitReturned(t) /\ conn[t] = CachedNone
       /\ result[t] = << FALSE, "Connection failed" >>
       /\ entry["recent"][cur] # NoEntry

\* C17: a submit whose try block raises returns the message of the
\* exception and not the id it generated; when it is the INSERT that raised
\* the table is as before, and the form then leaves the data caches alone.
C17_InsertFailure ==
    [][\A t \in Sessions :
          /\ (SubmitStep(t) /\ ~result'[t][1]) =>
                result'[t][2] \in { f \o " failed" : f \in Faults }
          /\ (SubmitStep(t) /\ result'[t] = << FALSE, "execute failed" >>) =>
                store' = store
          /\ (FormGoesOn(t) /\ result[t] = << FALSE, "execute failed" >>) =>
                NothingInvalidated]_vars

\* The INSERT of a submit failed while the table held a row and the data
\* cache an entry.
C17_Witness ==
    \E t \in Sessions :
       /\ SubmitReturned(t) /\ result[t] = << FALSE, "execute failed" >>
       /\ Len(store) > 0 /\ entry["recent"][cur] # NoEntry

\* Session t is running the body of a fetch: its lookups missed.
InBody(t) ==
    op[t] \in Keys /\ pc[t] \in {"getconn", "connlock", "connect", "exec", "write"}

\* C18 (as stated): of the callers of one fetch whose lookups missed, at
\* most one at a time runs the body and with it the query.
C18_OneQueryPerMiss ==
    \A k \in Keys : Cardinality({ t \in Sessions : op[t] = k /\ InBody(t) }) <= 1

\* C18 (amended): of the callers of one fetch whose lookups missed in the
\* same cache object, that is with no st.cache_data.clear() between their
\* calls, at most one at a time runs the body, and it runs only while that
\* object has no entry to serve; a caller that waited for it is served the
\* entry it wrote.
C18_OneQueryPerCache ==
    /\ \A t \in Sessions :
          InBody(t) =>
             /\ lock[op[t]][obj[t]] = t
             /\ ~IsFresh(entry[op[t]][obj[t]], now)
    /\ \A t, u \in Sessions :
          (t # u /\ InBody(t) /\ InBody(u) /\ op[t] = op[u]) => obj[t] # obj[u]
    /\ \A t \in Sessions :
          (Fetching(t) /\ ret[t].how = "shared") => ret[t].own

\* Two callers missed in the same cache object: one ran the query, the
\* other waited and returned the same frame without one.
C18_Witness ==
    \E t, u \in Sessions :
       /\ Fetching(t) /\ Fetching(u) /\ op[t] = op[u] /\ obj[t] = obj[u]
       /\ ret[t].how = "ran" /\ ret[u].how = "shared"
       /\ ret[t].val = ret[u].val /\ ret[t].val # EmptyDataFrame

\* A step of session t inside its call of fetch k, from the lookup to the
\* return of the wrapper.
FetchStep(t, k) ==
    /\ op[t] = k /\ pc'[t] # pc[t]
    /\ pc[t] \in {"lookup", "lock", "getconn", "connlock", "connect", "exec", "write"}

OtherKey(k) == IF k = "recent" THEN "summary" ELSE "recent"

\* C19: no step of a fetch_all_data call changes an entry (value or time of
\* writing) or a lock of the cache of get_summary_stats, and the other way
\* round; apart from the passing of time, only a st.cache_data.clear()
\* changes the entries that both functions are served from in one step.
C19_IndependentKeys ==
    [][ /\ \A t \in Sessions, k \in Keys :
             FetchStep(t, k) =>
                /\ entry'[OtherKey(k)] = entry[OtherKey(k)]
                /\ lock'[OtherKey(k)] = lock[OtherKey(k)]
                /\ cur' = cur
        /\ (\A k \in Keys : entry'[k][cur'] # entry[k][cur]) =>
              (cur' # cur \/ now' # now) ]_vars

\* Both functions have an entry in the current cache object, written at
\* different times: their windows run apart.
C19_Witness ==
    /\ entry["recent"][cur] # NoEntry /\ entry["summary"][cur] # NoEntry
    /\ entry["recent"][cur].at # entry["summary"][cur].at
    /\ \E t \in Sessions : Fetching(t) /\ op[t] = "summary" /\ ret[t].how = "ran"

\* C20: whenever no session is inside the try block of a submit or a
\* fetch, no cursor is open on the connection.
C20_CursorsClosed ==
    (\A t \in Sessions : pc[t] # "exec") => cursors = 0

====
